---- MODULE Spec2Model ----
(***************************************************************************)
(* Lexer, Pratt parser and AST string reconstruction of rowanlovejoy/monkey *)
(* (src/lexer/lexer.go, src/token/token.go, src/parser/parser.go lines      *)
(* 199-497, src/ast/ast.go).                                                *)
(*                                                                          *)
(* A byte is a one-character string, a text is a sequence of bytes, and the *)
(* Go structs Lexer, Parser, Token and the AST nodes are records that keep  *)
(* the field names of the source.  Go positions are 0-based: input[i] of    *)
(* the source is input[i + 1] here.                                         *)
(***************************************************************************)
EXTENDS Integers, Sequences, FiniteSets, TLC

VARIABLES input, p, program, statement, pc, out

vars == <<input, p, program, statement, pc, out>>

(***************************************************************************)
(* Bounds of the model.                                                     *)
(***************************************************************************)
\* longest input drawn from the whole lexeme alphabet, in lexemes
MaxLexemes == 3
\* most infix operators in a generated well-formed expression
MaxInfixOps == 2
\* most statements in a generated statement list
MaxStatements == 2
\* how many bytes past the end of the input the lexer cursor may run
MaxOverrun == 4
\* longest input drawn byte by byte
MaxBytes == 4
\* most words in an input made of words
MaxWords == 2

(***************************************************************************)
(* Bytes.                                                                   *)
(***************************************************************************)
\* the byte 0, which readChar stores at end of input
NUL == "NUL"

\* a byte above 0x7F, which stands for all of them
HighByte == "0xE9"

\* Go's string(ch) of a byte: the UTF-8 encoding of the code point of that
\* number, one byte up to 0x7F and two bytes above (0xE9 gives 0xC3 0xA9)
ByteString(ch) == IF ch = HighByte THEN <<"0xC3", "0xA9">> ELSE <<ch>>

LowerCase ==
  {"a", "b", "c", "d", "e", "f", "g", "h", "i", "j", "k", "l", "m",
   "n", "o", "p", "q", "r", "s", "t", "u", "v", "w", "x", "y", "z"}

UpperCase ==
  {"A", "B", "C", "D", "E", "F", "G", "H", "I", "J", "K", "L", "M",
   "N", "O", "P", "Q", "R", "S", "T", "U", "V", "W", "X", "Y", "Z"}

isLetter(ch) == ch \in LowerCase \/ ch \in UpperCase \/ ch = "_"

DigitValue ==
  [c \in {"0", "1", "2", "3", "4", "5", "6", "7", "8", "9"} |->
     CASE c = "0" -> 0 [] c = "1" -> 1 [] c = "2" -> 2 [] c = "3" -> 3
       [] c = "4" -> 4 [] c = "5" -> 5 [] c = "6" -> 6 [] c = "7" -> 7
       [] c = "8" -> 8 [] c = "9" -> 9]

isDigit(ch) == ch \in DOMAIN DigitValue

(***************************************************************************)
(* Tokens (src/token/token.go).                                             *)
(***************************************************************************)
ILLEGAL == "ILLEGAL"
EOF == "EOF"
IDENT == "IDENT"
INT == "INT"
ASSIGN == "ASSIGN"
PLUS == "PLUS"
MINUS == "MINUS"
BANG == "BANG"
ASTERISK == "ASTERISK"
SLASH == "SLASH"
LT == "LT"
GT == "GT"
EQ == "EQ"
NOTEQ == "NOTEQ"
COMMA == "COMMA"
SEMICOLON == "SEMICOLON"
LPAREN == "LPAREN"
RPAREN == "RPAREN"
LBRACE == "LBRACE"
RBRACE == "RBRACE"
FUNCTION == "FUNCTION"
\* token.LET (LET is a reserved word of TLA+)
TokLET == "LET"
RETURN == "RETURN"

\* the keyword table: identifier text -> token type
keywords == (<<"f", "n">> :> FUNCTION) @@ (<<"l", "e", "t">> :> TokLET)

\* token.New(tokenType, ch)
TokenNew(tokenType, ch) == [Type |-> tokenType, Literal |-> ByteString(ch)]

LookupIdent(ident) ==
  IF ident \in DOMAIN keywords THEN keywords[ident] ELSE IDENT

\* the zero value of token.Token
ZeroToken == [Type |-> "", Literal |-> <<>>]

(***************************************************************************)
(* Lexer (src/lexer/lexer.go).  A lexer is the record                       *)
(* [input, position, readPosition, ch].                                     *)
(***************************************************************************)
readChar(l) ==
  [l EXCEPT !.ch = IF l.readPosition >= Len(l.input)
                     THEN NUL
                     ELSE l.input[l.readPosition + 1],
            !.position = l.readPosition,
            !.readPosition = l.readPosition + 1]

peekChar(l) ==
  IF l.readPosition >= Len(l.input) THEN NUL ELSE l.input[l.readPosition + 1]

LexerNew(text) ==
  readChar([input |-> text, position |-> 0, readPosition |-> 0, ch |-> NUL])

RECURSIVE skipWhitespace(_)
skipWhitespace(l) ==
  IF l.ch = " " \/ l.ch = "\t" \/ l.ch = "\n" \/ l.ch = "\r"
    THEN skipWhitespace(readChar(l))
    ELSE l

\* the loop of readIdentifier: the lexer after the run of letters
RECURSIVE skipLetters(_)
skipLetters(l) == IF isLetter(l.ch) THEN skipLetters(readChar(l)) ELSE l

\* the loop of readNumber: the lexer after the run of digits
RECURSIVE skipDigits(_)
skipDigits(l) == IF isDigit(l.ch) THEN skipDigits(readChar(l)) ELSE l

\* input[from:to] of the source, 0-based and half-open
Slice(text, from, to) == SubSeq(text, from + 1, to)

\* what readIdentifier and readNumber return: the lexer m after the run
\* that starts at the cursor of l, and input[position:l.position]
RunRead(l, m) == [l |-> m, literal |-> Slice(l.input, l.position, m.position)]

readIdentifier(l) == RunRead(l, skipLetters(l))

readNumber(l) == RunRead(l, skipDigits(l))

makeTwoCharLiteral(l, expected) ==
  LET nextCh == peekChar(l)
      literal == ByteString(l.ch) \o ByteString(nextCh)
  IN IF literal = expected
       THEN [l |-> readChar(l), literal |-> expected, ok |-> TRUE]
       ELSE [l |-> l, literal |-> <<>>, ok |-> FALSE]

\* the token type of a byte that is a token by itself
SingleCharType ==
  ("+" :> PLUS) @@ ("-" :> MINUS) @@ ("/" :> SLASH) @@ ("*" :> ASTERISK)
  @@ ("<" :> LT) @@ (">" :> GT) @@ ("," :> COMMA) @@ (";" :> SEMICOLON)
  @@ ("(" :> LPAREN) @@ (")" :> RPAREN) @@ ("{" :> LBRACE) @@ ("}" :> RBRACE)

\* the cases '=' and '!' of NextToken, given what makeTwoCharLiteral returned
TwoCharToken(l, two, twoType, oneType) ==
  IF two.ok
    THEN [tok |-> [Type |-> twoType, Literal |-> two.literal],
          l |-> readChar(two.l)]
    ELSE [tok |-> TokenNew(oneType, l.ch), l |-> readChar(l)]

\* the letter branch of NextToken, given what readIdentifier returned
IdentToken(r) ==
  [tok |-> [Type |-> LookupIdent(r.literal), Literal |-> r.literal], l |-> r.l]

\* the digit branch of NextToken, given what readNumber returned
IntToken(r) == [tok |-> [Type |-> INT, Literal |-> r.literal], l |-> r.l]

\* the switch of NextToken, after skipWhitespace
TokenAt(l) ==
  CASE l.ch = "=" ->
         TwoCharToken(l, makeTwoCharLiteral(l, <<"=", "=">>), EQ, ASSIGN)
    [] l.ch = "!" ->
         TwoCharToken(l, makeTwoCharLiteral(l, <<"!", "=">>), NOTEQ, BANG)
    [] l.ch \in DOMAIN SingleCharType ->
         [tok |-> TokenNew(SingleCharType[l.ch], l.ch), l |-> readChar(l)]
    [] l.ch = NUL ->
         [tok |-> [Type |-> EOF, Literal |-> <<>>], l |-> readChar(l)]
    [] OTHER ->
         IF isLetter(l.ch)
           THEN IdentToken(readIdentifier(l))
           ELSE IF isDigit(l.ch)
             THEN IntToken(readNumber(l))
             ELSE [tok |-> TokenNew(ILLEGAL, l.ch), l |-> readChar(l)]

\* NextToken: the token at the cursor and the lexer after it
NextToken(l) == TokenAt(skipWhitespace(l))

(***************************************************************************)
(* AST nodes (src/ast/ast.go).  An absent expression is the nil interface,  *)
(* an absent statement is the nil *LetStatement that parseLetStatement      *)
(* returns and parseStatement wraps in a Statement.                         *)
(***************************************************************************)
Nil == [node |-> "nil"]

NilLetStatement == [node |-> "nil *LetStatement"]

Identifier(token, value) ==
  [node |-> "Identifier", Token |-> token, Value |-> value]

IntegerLiteral(token, value) ==
  [node |-> "IntegerLiteral", Token |-> token, Value |-> value]

PrefixExpression(token, operator, right) ==
  [node |-> "PrefixExpression", Token |-> token, Operator |-> operator,
   Right |-> right]

InfixExpression(token, left, operator, right) ==
  [node |-> "InfixExpression", Token |-> token, Left |-> left,
   Operator |-> operator, Right |-> right]

LetStatement(token, name, value) ==
  [node |-> "LetStatement", Token |-> token, Name |-> name, Value |-> value]

ReturnStatement(token, returnValue) ==
  [node |-> "ReturnStatement", Token |-> token, ReturnValue |-> returnValue]

ExpressionStatement(token, expression) ==
  [node |-> "ExpressionStatement", Token |-> token, Expression |-> expression]

(***************************************************************************)
(* Parser (src/parser/parser.go, lines 199-497).  A parser is the record    *)
(* [lexer, errors, currToken, peekToken]; a parsing function returns the    *)
(* parser after it beside its result.                                       *)
(***************************************************************************)
LOWEST == 0
EQUALS == 1
LESSGREATER == 2
SUM == 3
PRODUCT == 4
PREFIX == 5
CALL == 6

precedences ==
  (EQ :> EQUALS) @@ (NOTEQ :> EQUALS) @@ (LT :> LESSGREATER)
  @@ (GT :> LESSGREATER) @@ (PLUS :> SUM) @@ (MINUS :> SUM)
  @@ (SLASH :> PRODUCT) @@ (ASTERISK :> PRODUCT)

\* the handlers New registers, by token type
prefixParseFns ==
  (IDENT :> "parseIdentifier") @@ (INT :> "parseIntegerLiteral")
  @@ (BANG :> "parsePrefixExpression") @@ (MINUS :> "parsePrefixExpression")

infixParseFns ==
  [t \in {PLUS, MINUS, SLASH, ASTERISK, EQ, NOTEQ, LT, GT} |->
     "parseInfixExpression"]

\* nextToken as it would be if it took the new token for the current one
\* as well
AdvanceDuplicates(q, r) ==
  [q EXCEPT !.currToken = r.tok, !.peekToken = r.tok, !.lexer = r.l]

\* nextToken, given what lexer.NextToken returned
Advance(q, r) ==
  [q EXCEPT !.currToken = q.peekToken, !.peekToken = r.tok, !.lexer = r.l]

nextToken(q) == Advance(q, NextToken(q.lexer))

ParserNew(l) ==
  nextToken(nextToken([lexer |-> l, errors |-> <<>>,
                       currToken |-> ZeroToken, peekToken |-> ZeroToken]))

peekPrecedence(q) ==
  IF q.peekToken.Type \in DOMAIN precedences
    THEN precedences[q.peekToken.Type]
    ELSE LOWEST

currPrecedence(q) ==
  IF q.currToken.Type \in DOMAIN precedences
    THEN precedences[q.currToken.Type]
    ELSE LOWEST

\* the message of peekError
PeekErrorMessage(t, got) ==
  <<"Unexpected next token. Expected next token to be", t, "got", got>>

\* peekError as it would be if it assigned the message instead of appending
peekErrorOverwrites(q, t) ==
  [q EXCEPT !.errors = <<PeekErrorMessage(t, q.peekToken.Type)>>]

peekError(q, t) ==
  [q EXCEPT !.errors = Append(q.errors, PeekErrorMessage(t, q.peekToken.Type))]

\* the message of noPrefixParseFnError
NoPrefixMessage(t) == <<"Failed to find prefix parse function for token", t>>

noPrefixParseFnError(q, t) ==
  [q EXCEPT !.errors = Append(q.errors, NoPrefixMessage(t))]

currTokenIs(q, t) == q.currToken.Type = t

peekTokenIs(q, t) == q.peekToken.Type = t

\* expectPeek as it would be without its call of peekError
expectPeekSilent(q, t) ==
  IF peekTokenIs(q, t)
    THEN [p |-> nextToken(q), ok |-> TRUE]
    ELSE [p |-> q, ok |-> FALSE]

\* expectPeek as it would be if it advanced on a mismatch too
expectPeekAlwaysAdvances(q, t) ==
  IF peekTokenIs(q, t)
    THEN [p |-> nextToken(q), ok |-> TRUE]
    ELSE [p |-> nextToken(peekError(q, t)), ok |-> FALSE]

expectPeek(q, t) ==
  IF peekTokenIs(q, t)
    THEN [p |-> nextToken(q), ok |-> TRUE]
    ELSE [p |-> peekError(q, t), ok |-> FALSE]

\* the digit loop of strconv.ParseUint: the value of s in the base, or an
\* error at the first digit that is not below the base
RECURSIVE ParseDigits(_, _, _)
ParseDigits(s, base, n) ==
  IF s = <<>>
    THEN [value |-> n, err |-> FALSE]
    ELSE IF DigitValue[Head(s)] >= base
      THEN [value |-> 0, err |-> TRUE]
      ELSE ParseDigits(Tail(s), base, n * base + DigitValue[Head(s)])

\* strconv.ParseInt(s, 0, 64) on a run of decimal digits: base 0 reads a
\* leading 0 as the octal prefix.  The literals of the model are far shorter
\* than the 19 digits at which int64 overflows.
ParseInt(s) ==
  IF Head(s) = "0" THEN ParseDigits(Tail(s), 8, 0) ELSE ParseDigits(s, 10, 0)

\* the message of parseIntegerLiteral
ParseIntMessage(literal) == <<"Failed to parse", literal, "as integer">>

parseIdentifier(q) ==
  [p |-> q, e |-> Identifier(q.currToken, q.currToken.Literal)]

\* parseIntegerLiteral, given what strconv.ParseInt returned
IntegerLiteralOf(q, r) ==
  IF r.err
    THEN [p |-> [q EXCEPT !.errors =
                   Append(q.errors, ParseIntMessage(q.currToken.Literal))],
          e |-> Nil]
    ELSE [p |-> q, e |-> IntegerLiteral(q.currToken, r.value)]

parseIntegerLiteral(q) == IntegerLiteralOf(q, ParseInt(q.currToken.Literal))

\* parsePrefixExpression, given the operand parseExpression returned
PrefixExpressionOf(q, right) ==
  [p |-> right.p,
   e |-> PrefixExpression(q.currToken, q.currToken.Literal, right.e)]

\* parseInfixExpression, given the right operand parseExpression returned
InfixExpressionOf(q, left, right) ==
  [p |-> right.p,
   e |-> InfixExpression(q.currToken, left, q.currToken.Literal, right.e)]

RECURSIVE parseExpression(_, _), parseExpressionLoop(_, _),
          parsePrefixExpression(_), parseInfixExpression(_, _)

parsePrefixExpression(q) ==
  PrefixExpressionOf(q, parseExpression(nextToken(q), PREFIX))

parseInfixExpression(q, left) ==
  InfixExpressionOf(q, left, parseExpression(nextToken(q), currPrecedence(q)))

\* the for loop of parseExpression: left is the parser and leftExpression
parseExpressionLoop(left, precedence) ==
  IF ~peekTokenIs(left.p, SEMICOLON) /\ precedence < peekPrecedence(left.p)
    THEN IF left.p.peekToken.Type \notin DOMAIN infixParseFns
           THEN left
           ELSE parseExpressionLoop(
                  parseInfixExpression(nextToken(left.p), left.e), precedence)
    ELSE left

\* prefixFn(), for the handler registered under that name
CallPrefixFn(prefixFn, q) ==
  CASE prefixFn = "parseIdentifier" -> parseIdentifier(q)
    [] prefixFn = "parseIntegerLiteral" -> parseIntegerLiteral(q)
    [] prefixFn = "parsePrefixExpression" -> parsePrefixExpression(q)

\* parseExpression as it would be if it stepped over a token that has no
\* prefix function
parseExpressionStepsOver(q, precedence) ==
  IF q.currToken.Type \notin DOMAIN prefixParseFns
    THEN [p |-> nextToken(noPrefixParseFnError(q, q.currToken.Type)),
          e |-> Nil]
    ELSE parseExpressionLoop(
           CallPrefixFn(prefixParseFns[q.currToken.Type], q), precedence)

parseExpression(q, precedence) ==
  IF q.currToken.Type \notin DOMAIN prefixParseFns
    THEN [p |-> noPrefixParseFnError(q, q.currToken.Type), e |-> Nil]
    ELSE parseExpressionLoop(
           CallPrefixFn(prefixParseFns[q.currToken.Type], q), precedence)

\* parseExpressionStatement as it would be if it left the ; unread
ExpressionStatementOfKeepsSemi(q, r) ==
  [p |-> r.p, s |-> ExpressionStatement(q.currToken, r.e), skip |-> FALSE]

\* parseExpressionStatement, given what parseExpression returned
ExpressionStatementOf(q, r) ==
  IF peekTokenIs(r.p, SEMICOLON)
    THEN [p |-> nextToken(r.p), s |-> ExpressionStatement(q.currToken, r.e),
          skip |-> FALSE]
    ELSE [p |-> r.p, s |-> ExpressionStatement(q.currToken, r.e),
          skip |-> FALSE]

parseExpressionStatement(q) ==
  ExpressionStatementOf(q, parseExpression(q, LOWEST))

\* parseLetStatement after expectPeek(token.ASSIGN) returned second: skip
\* tells whether the token-skipping loop is entered
LetStatementAfterAssign(statement0, second) ==
  IF ~second.ok
    THEN [p |-> second.p, s |-> NilLetStatement, skip |-> FALSE]
    ELSE [p |-> second.p, s |-> statement0, skip |-> TRUE]

\* parseLetStatement as it would be if it built Name before expectPeek
\* advanced to the identifier
LetStatementAfterIdentEarlyName(q, first) ==
  IF ~first.ok
    THEN [p |-> first.p, s |-> NilLetStatement, skip |-> FALSE]
    ELSE LetStatementAfterAssign(
           LetStatement(q.currToken,
                        Identifier(q.currToken, q.currToken.Literal),
                        Nil),
           expectPeek(first.p, ASSIGN))

\* parseLetStatement after expectPeek(token.IDENT) returned first
LetStatementAfterIdent(q, first) ==
  IF ~first.ok
    THEN [p |-> first.p, s |-> NilLetStatement, skip |-> FALSE]
    ELSE LetStatementAfterAssign(
           LetStatement(q.currToken,
                        Identifier(first.p.currToken,
                                   first.p.currToken.Literal),
                        Nil),
           expectPeek(first.p, ASSIGN))

\* parseLetStatement up to its token-skipping loop; without the loop (skip
\* is FALSE) s is what parseLetStatement returns
parseLetStatement(q) == LetStatementAfterIdent(q, expectPeek(q, IDENT))

\* parseReturnStatement up to its token-skipping loop
parseReturnStatement(q) ==
  [p |-> nextToken(q), s |-> ReturnStatement(q.currToken, Nil), skip |-> TRUE]

parseStatement(q) ==
  CASE q.currToken.Type = TokLET -> parseLetStatement(q)
    [] q.currToken.Type = RETURN -> parseReturnStatement(q)
    [] OTHER -> parseExpressionStatement(q)

(***************************************************************************)
(* String reconstruction (src/ast/ast.go).  A String method of a statement  *)
(* returns [panic, out]: panic tells that it dereferenced a nil pointer,    *)
(* and out is the text otherwise.  ast.go holds no IntegerLiteral,          *)
(* PrefixExpression or InfixExpression: their String methods follow         *)
(* sections 3 and 4.4 of the specification.                                 *)
(***************************************************************************)
NIL_TOKEN_LITERAL == <<"<", "n", "i", "l", ">">>

IdentifierString(i) == i.Value

IntegerLiteralString(il) == il.Token.Literal

RECURSIVE ExpressionString(_)

PrefixExpressionString(pe) ==
  <<"(">> \o pe.Operator \o ExpressionString(pe.Right) \o <<")">>

InfixExpressionString(ie) ==
  <<"(">> \o ExpressionString(ie.Left) \o <<" ">> \o ie.Operator \o <<" ">>
  \o ExpressionString(ie.Right) \o <<")">>

\* e.String() for an Expression e that may be absent
ExpressionString(e) ==
  CASE e.node = "Identifier" -> IdentifierString(e)
    [] e.node = "IntegerLiteral" -> IntegerLiteralString(e)
    [] e.node = "PrefixExpression" -> PrefixExpressionString(e)
    [] e.node = "InfixExpression" -> InfixExpressionString(e)
    [] e.node = "nil" -> <<>>

LetStatementTokenLiteral(ls) ==
  IF ls = NilLetStatement THEN NIL_TOKEN_LITERAL ELSE ls.Token.Literal

\* on a nil receiver TokenLiteral answers, and ls.Name then dereferences nil
LetStatementString(ls) ==
  IF ls = NilLetStatement
    THEN [panic |-> TRUE, out |-> <<>>]
    ELSE [panic |-> FALSE,
          out |-> LetStatementTokenLiteral(ls) \o <<" ">>
                  \o IdentifierString(ls.Name) \o <<" ", "=", " ">>
                  \o (IF ls.Value # Nil THEN ExpressionString(ls.Value)
                                        ELSE <<>>)
                  \o <<";">>]

ReturnStatementString(rs) ==
  [panic |-> FALSE,
   out |-> rs.Token.Literal \o <<" ">>
           \o (IF rs.ReturnValue # Nil THEN ExpressionString(rs.ReturnValue)
                                       ELSE <<>>)
           \o <<";">>]

\* ExpressionStatement.String as it would be if it appended a ;
ExpressionStatementStringSemi(es) ==
  [panic |-> FALSE,
   out |-> (IF es.Expression # Nil THEN ExpressionString(es.Expression)
                                   ELSE <<>>) \o <<";">>]

ExpressionStatementString(es) ==
  [panic |-> FALSE,
   out |-> IF es.Expression # Nil THEN ExpressionString(es.Expression)
                                  ELSE <<>>]

\* s.String() for a Statement s
StatementString(s) ==
  CASE s.node \in {"LetStatement", "nil *LetStatement"} -> LetStatementString(s)
    [] s.node = "ReturnStatement" -> ReturnStatementString(s)
    [] s.node = "ExpressionStatement" -> ExpressionStatementString(s)

RECURSIVE ProgramStringFrom(_, _, _)

\* one turn of the loop of Program.String: r is what Statements[i].String()
\* returned, written is the buffer before it
ProgramStringWrite(statements, i, written, r) ==
  IF r.panic
    THEN [panic |-> TRUE, out |-> written]
    ELSE ProgramStringFrom(statements, i + 1, written \o r.out)

\* the loop of Program.String from Statements[i] on
ProgramStringFrom(statements, i, written) ==
  IF i > Len(statements)
    THEN [panic |-> FALSE, out |-> written]
    ELSE ProgramStringWrite(statements, i, written,
                            StatementString(statements[i]))

ProgramString(prog) == ProgramStringFrom(prog.Statements, 1, <<>>)

(***************************************************************************)
(* Inputs.  An input is a list of lexemes written with one space between    *)
(* them; three families of lists are drawn.                                 *)
(***************************************************************************)
LexLet == <<"l", "e", "t">>
LexReturn == <<"r", "e", "t", "u", "r", "n">>
LexSemi == <<";">>
LexAssign == <<"=">>

\* the texts of the infix operators
InfixLexemes ==
  {<<"+">>, <<"-">>, <<"*">>, <<"/">>, <<"<">>, <<">">>, <<"=", "=">>,
   <<"!", "=">>}

\* a text for each way the parser treats a token, an octal-looking integer
\* and a byte the lexer does not know
Alphabet ==
  {LexLet, LexReturn, <<"a">>, <<"5">>, <<"0", "8">>, LexAssign, LexSemi,
   <<"=", "=">>, <<"!">>, <<"-">>, <<"+">>, <<"@">>}

RECURSIVE Join(_)
Join(lexemes) ==
  IF lexemes = <<>>
    THEN <<>>
    ELSE IF Len(lexemes) = 1
      THEN lexemes[1]
      ELSE lexemes[1] \o <<" ">> \o Join(Tail(lexemes))

\* the concatenation of a list of lists
RECURSIVE Flatten(_)
Flatten(lists) ==
  IF lists = <<>> THEN <<>> ELSE Head(lists) \o Flatten(Tail(lists))

\* any k lexemes at all
ArbitraryInputs(k) == {Join(ls) : ls \in [1..k -> Alphabet]}

\* an operand: an identifier, an integer, a leaf under a prefix operator
Operands == {<<<<"a">>>>, <<<<"1", "0">>>>, <<<<"-">>, <<"b">>>>}

\* an operand followed by n times (operator operand), as a list of lexemes
RECURSIVE ExpressionLexemes(_)
ExpressionLexemes(n) ==
  IF n = 0
    THEN Operands
    ELSE {e \o <<o>> \o x :
            e \in ExpressionLexemes(n - 1), o \in InfixLexemes, x \in Operands}

\* one expression of n infix operators
ExpressionInputs(n) == {Join(e) : e \in ExpressionLexemes(n)}

\* statements, well formed and not, with and without their ;
StatementForms ==
  {<<LexLet, <<"x">>, LexAssign, <<"5">>, LexSemi>>,
   <<LexLet, <<"y">>, LexAssign, <<"1", "0">>, LexSemi>>,
   <<LexLet, <<"f", "o", "o">>, LexAssign, <<"0", "8">>, LexSemi>>,
   <<LexLet, <<"x">>, LexAssign, <<"a">>, <<"+">>, <<"5">>, LexSemi>>,
   <<LexLet, <<"x">>, LexAssign, <<"5">>>>,
   <<LexLet, LexAssign, <<"5">>, LexSemi>>,
   <<LexLet, <<"x">>, <<"5">>, LexSemi>>,
   <<LexReturn, <<"5">>, LexSemi>>,
   <<LexReturn, <<"5">>>>,
   <<LexReturn, <<"a">>, <<"+">>, <<"5">>, LexSemi>>,
   <<<<"a">>, <<"+">>, <<"5">>, LexSemi>>,
   <<<<"f", "o", "o">>, LexSemi>>,
   <<<<"f", "o", "o">>>>}

\* k statements
StatementInputs(k) == {Join(Flatten(ss)) : ss \in [1..k -> StatementForms]}

\* the texts the parser is run on
IsInput(text) ==
  \/ \E k \in 0..MaxLexemes : text \in ArbitraryInputs(k)
  \/ \E n \in 0..MaxInfixOps : text \in ExpressionInputs(n)
  \/ \E k \in 0..MaxStatements : text \in StatementInputs(k)

(***************************************************************************)
(* The state machine: New, then ParseProgram, whose token-skipping loops    *)
(* advance one token per step, then Program.String.                         *)
(*   input      the text handed to lexer.New                                *)
(*   p          the Parser                                                  *)
(*   program    the Program of ParseProgram                                 *)
(*   statement  the statement whose skipping loop is running                *)
(*   pc         "ParseProgram": at the head of the loop of ParseProgram;    *)
(*              "skip": in the loop of parseLetStatement or of              *)
(*              parseReturnStatement; "returned": ParseProgram returned;    *)
(*              "String": Program.String returned; "panic": it panicked     *)
(*   out        the text Program.String returned                            *)
(***************************************************************************)
Init ==
  /\ IsInput(input)
  /\ p = ParserNew(LexerNew(input))
  /\ program = [Statements |-> <<>>]
  /\ statement = Nil
  /\ pc = "ParseProgram"
  /\ out = <<>>

\* the turn of the loop of ParseProgram in which parseStatement returned r,
\* or entered a token-skipping loop
StatementParsed(r) ==
  IF r.skip
    THEN /\ p' = r.p
         /\ statement' = r.s
         /\ pc' = "skip"
         /\ UNCHANGED program
    ELSE /\ p' = nextToken(r.p)
         /\ program' = [program EXCEPT
                          !.Statements = Append(program.Statements, r.s)]
         /\ UNCHANGED <<statement, pc>>

\* one turn of the loop of ParseProgram, up to a token-skipping loop if the
\* statement enters one
ParseStatement ==
  /\ pc = "ParseProgram"
  /\ ~currTokenIs(p, EOF)
  /\ StatementParsed(parseStatement(p))
  /\ UNCHANGED <<input, out>>

\* one turn of a token-skipping loop
SkipToken ==
  /\ pc = "skip"
  /\ ~currTokenIs(p, SEMICOLON)
  /\ p.lexer.readPosition < Len(input) + MaxOverrun
  /\ p' = nextToken(p)
  /\ UNCHANGED <<input, program, statement, pc, out>>

\* the token-skipping loop ends: the statement is returned and appended
EndSkip ==
  /\ pc = "skip"
  /\ currTokenIs(p, SEMICOLON)
  /\ program' = [program EXCEPT
                   !.Statements = Append(program.Statements, statement)]
  /\ p' = nextToken(p)
  /\ statement' = Nil
  /\ pc' = "ParseProgram"
  /\ UNCHANGED <<input, out>>

\* ParseProgram returns
ReturnProgram ==
  /\ pc = "ParseProgram"
  /\ currTokenIs(p, EOF)
  /\ pc' = "returned"
  /\ UNCHANGED <<input, p, program, statement, out>>

\* what Program.String returned, or its panic
Rendered(r) ==
  /\ out' = r.out
  /\ pc' = IF r.panic THEN "panic" ELSE "String"

\* the caller renders the program
String ==
  /\ pc = "returned"
  /\ Rendered(ProgramString(program))
  /\ UNCHANGED <<input, p, program, statement>>

Next == ParseStatement \/ SkipToken \/ EndSkip \/ ReturnProgram \/ String

Spec == Init /\ [][Next]_vars

(***************************************************************************)
(* The token stream: lexer.New, then one call of Parser.nextToken, and so   *)
(* of Lexer.NextToken, per step.  The first two calls are those of          *)
(* parser.New.  In this specification pc is "New" until both calls of New   *)
(* are made and "nextToken" from then on; peekToken is the token the last   *)
(* call of NextToken returned.                                              *)
(***************************************************************************)
\* bytes of every class NextToken tells apart; a text may hold the byte 0
LexBytes == {"=", "!", "a", "_", "5", " ", "@", ";", NUL, HighByte}

\* the texts of k bytes
ByteInputs(k) == [1..k -> LexBytes]

\* the reserved words of the language, and words that are none
Words ==
  {<<"f", "n">>, <<"l", "e", "t">>, <<"t", "r", "u", "e">>,
   <<"f", "a", "l", "s", "e">>, <<"i", "f">>, <<"e", "l", "s", "e">>,
   <<"r", "e", "t", "u", "r", "n">>, <<"L", "e", "t">>,
   <<"l", "e", "t", "s">>, <<"l", "e">>, <<"f", "o", "o">>}

\* the texts of k words
WordInputs(k) == {Join(ws) : ws \in [1..k -> Words]}

LexInit ==
  /\ \/ \E k \in 0..MaxBytes : input \in ByteInputs(k)
     \/ \E k \in 0..MaxWords : input \in WordInputs(k)
  /\ p = [lexer |-> LexerNew(input), errors |-> <<>>,
          currToken |-> ZeroToken, peekToken |-> ZeroToken]
  /\ program = [Statements |-> <<>>]
  /\ statement = Nil
  /\ pc = "New"
  /\ out = <<>>

\* one call of Parser.nextToken
CallNextToken ==
  /\ pc \in {"New", "nextToken"}
  /\ p.lexer.readPosition < Len(input) + MaxOverrun
  /\ p' = nextToken(p)
  /\ pc' = IF p.peekToken = ZeroToken THEN "New" ELSE "nextToken"
  /\ UNCHANGED <<input, program, statement, out>>

LexNext == CallNextToken

LexSpec == LexInit /\ [][LexNext]_vars

(***************************************************************************)
(* ParseProgram as one function, for the runs that enter no token-skipping  *)
(* loop: returned tells that ParseProgram returned, and is FALSE where a     *)
(* statement entered such a loop.                                           *)
(***************************************************************************)
RECURSIVE ParseProgramFrom(_, _)

\* the turn of the loop in which parseStatement returned r
ParseProgramTurn(prog, r) ==
  IF r.skip
    THEN [p |-> r.p, program |-> prog, returned |-> FALSE]
    ELSE ParseProgramFrom(nextToken(r.p),
                          [prog EXCEPT
                             !.Statements = Append(prog.Statements, r.s)])

ParseProgramFrom(q, prog) ==
  IF currTokenIs(q, EOF)
    THEN [p |-> q, program |-> prog, returned |-> TRUE]
    ELSE ParseProgramTurn(prog, parseStatement(q))

ParseProgram(text) ==
  ParseProgramFrom(ParserNew(LexerNew(text)), [Statements |-> <<>>])

(***************************************************************************)
(* What the properties speak about.                                         *)
(***************************************************************************)
RECURSIVE TokensFrom(_)

\* the tokens before EOF, given the first of them
TokensAfter(r) ==
  IF r.tok.Type = EOF THEN <<>> ELSE <<r.tok>> \o TokensFrom(r.l)

TokensFrom(l) == TokensAfter(NextToken(l))

\* the tokens of a text, EOF left out
Tokens(text) == TokensFrom(LexerNew(text))

InputTokens == Tokens(input)

\* ParseProgram has returned
Returned == pc \in {"returned", "String", "panic"}

PrefixTypes == {BANG, MINUS}
LeafTypes == {IDENT, INT}
InfixTypes == {PLUS, MINUS, ASTERISK, SLASH, LT, GT, EQ, NOTEQ}

\* toks[i..] is operand (operator operand)*, an operand being a leaf under
\* prefix operators; operand tells that an operand is due at i
RECURSIVE ExpressionShape(_, _, _)
ExpressionShape(toks, i, operand) ==
  IF operand
    THEN /\ i <= Len(toks)
         /\ \/ toks[i].Type \in PrefixTypes /\ ExpressionShape(toks, i + 1, TRUE)
            \/ toks[i].Type \in LeafTypes /\ ExpressionShape(toks, i + 1, FALSE)
    ELSE \/ i > Len(toks)
         \/ toks[i].Type \in InfixTypes /\ ExpressionShape(toks, i + 1, TRUE)

\* toks is one expression
IsExpression(toks) == ExpressionShape(toks, 1, TRUE)

\* toks is one expression, followed or not by ;
IsExpressionOptSemi(toks) ==
  \/ IsExpression(toks)
  \/ /\ toks # <<>>
     /\ toks[Len(toks)].Type = SEMICOLON
     /\ IsExpression(SubSeq(toks, 1, Len(toks) - 1))

\* the binding strength the specification gives an infix operator
Strength(type) ==
  CASE type \in {EQ, NOTEQ} -> 1
    [] type \in {LT, GT} -> 2
    [] type \in {PLUS, MINUS} -> 3
    [] type \in {ASTERISK, SLASH} -> 4

\* where the infix operators of an expression stand: after a leaf
InfixPositions(toks) ==
  {i \in 2..Len(toks) :
     toks[i].Type \in InfixTypes /\ toks[i - 1].Type \in LeafTypes}

\* the operator applied last: the rightmost of the weakest
RootPosition(toks) ==
  CHOOSE i \in InfixPositions(toks) :
    \A j \in InfixPositions(toks) :
      \/ Strength(toks[i].Type) < Strength(toks[j].Type)
      \/ Strength(toks[i].Type) = Strength(toks[j].Type) /\ i >= j

\* the fully parenthesized form of the expression toks, by the rules of the
\* specification and without the parser
RECURSIVE Parenthesized(_)
Parenthesized(toks) ==
  IF InfixPositions(toks) = {}
    THEN IF toks[1].Type \in PrefixTypes
           THEN <<"(">> \o toks[1].Literal \o Parenthesized(Tail(toks))
                \o <<")">>
           ELSE toks[1].Literal
    ELSE <<"(">>
         \o Parenthesized(SubSeq(toks, 1, RootPosition(toks) - 1))
         \o <<" ">> \o toks[RootPosition(toks)].Literal \o <<" ">>
         \o Parenthesized(SubSeq(toks, RootPosition(toks) + 1, Len(toks)))
         \o <<")">>

\* an expression slot of the tree is absent
RECURSIVE ExpressionHasAbsent(_)
ExpressionHasAbsent(e) ==
  CASE e.node = "nil" -> TRUE
    [] e.node = "PrefixExpression" -> ExpressionHasAbsent(e.Right)
    [] e.node = "InfixExpression" ->
         ExpressionHasAbsent(e.Left) \/ ExpressionHasAbsent(e.Right)
    [] OTHER -> FALSE

StatementHasAbsent(s) ==
  CASE s.node = "LetStatement" -> ExpressionHasAbsent(s.Value)
    [] s.node = "ReturnStatement" -> ExpressionHasAbsent(s.ReturnValue)
    [] s.node = "ExpressionStatement" -> ExpressionHasAbsent(s.Expression)
    [] OTHER -> FALSE

ProgramHasAbsent(prog) ==
  \E i \in 1..Len(prog.Statements) : StatementHasAbsent(prog.Statements[i])

(***************************************************************************)
(* Properties.                                                              *)
(***************************************************************************)
\* C1: for every input that is one expression of identifiers, integers,
\* prefix ! and - and the eight infix operators, ParseProgram records no
\* error and Program.String() is the fully parenthesized form: a prefix
\* operator binds tighter than every infix operator, a stronger infix
\* operator binds tighter than a weaker one, and equal ones group to the left
C1_PrecedenceRoundTrip ==
  (Returned /\ IsExpression(InputTokens)) =>
    /\ p.errors = <<>>
    /\ pc # "panic"
    /\ pc = "String" => out = Parenthesized(InputTokens)

\* an integer literal that strconv.ParseInt reads in base 10
IsDecimal(literal) == Len(literal) = 1 \/ literal[1] # "0"

DecimalIntegersOnly(toks) ==
  \A i \in 1..Len(toks) : toks[i].Type = INT => IsDecimal(toks[i].Literal)

\* C1, for the expressions whose integers have no leading 0: the round trip
\* which C1 states holds for them
C1_DecimalPrecedenceRoundTrip ==
  (Returned /\ IsExpression(InputTokens) /\ DecimalIntegersOnly(InputTokens))
    => /\ p.errors = <<>>
       /\ pc # "panic"
       /\ pc = "String" => out = Parenthesized(InputTokens)

\* C1's case is reached: an expression with three operands was rendered
C1_Witness ==
  /\ pc = "String"
  /\ IsExpression(InputTokens)
  /\ Cardinality(InfixPositions(InputTokens)) = 2
  /\ out = Parenthesized(InputTokens)

\* C2: every token-skipping loop inside statement parsing also exits on end
\* of input, so that ParseProgram terminates on every input: no turn of such
\* a loop is taken with the current token being EOF
C2_SkipLoopsExitAtEOF == [][SkipToken => ~currTokenIs(p, EOF)]_vars

\* C3: no element of Program.Statements is an absent statement
C3_NoAbsentStatement ==
  \A i \in 1..Len(program.Statements) :
    program.Statements[i] # NilLetStatement

\* C4: in every Program that ParseProgram returned, an absent expression
\* slot implies a non-empty error list
C4_AbsentSlotHasError ==
  (Returned /\ ProgramHasAbsent(program)) => p.errors # <<>>

\* C5: Program.String() completes without failing on every Program that
\* ParseProgram returns
C5_StringNeverFails == pc # "panic"

\* toks is N >= 1 statements  let <ident> = <integer> ;
IsLetList(toks) ==
  /\ toks # <<>>
  /\ Len(toks) % 5 = 0
  /\ \A k \in 0..(Len(toks) \div 5 - 1) :
       /\ toks[5 * k + 1].Type = TokLET
       /\ toks[5 * k + 2].Type = IDENT
       /\ toks[5 * k + 3].Type = ASSIGN
       /\ toks[5 * k + 4].Type = INT
       /\ toks[5 * k + 5].Type = SEMICOLON

\* C6: for N well-formed statements  let <ident> = <integer>;  ParseProgram
\* returns, records no error and gives exactly N LetStatements with token
\* literal let, whose names are the N identifiers in source order
C6_LetStatements ==
  /\ (pc = "skip" /\ currTokenIs(p, EOF)) => ~IsLetList(InputTokens)
  /\ (pc = "returned" /\ IsLetList(InputTokens)) =>
       /\ p.errors = <<>>
       /\ Len(program.Statements) = Len(InputTokens) \div 5
       /\ \A i \in 1..Len(program.Statements) :
            /\ program.Statements[i].node = "LetStatement"
            /\ LetStatementTokenLiteral(program.Statements[i]) = LexLet
            /\ program.Statements[i].Name.Value
                 = InputTokens[5 * i - 3].Literal
            /\ program.Statements[i].Name.Token.Literal
                 = InputTokens[5 * i - 3].Literal

\* C6's case is reached: two let statements with different names were parsed
C6_Witness ==
  /\ pc = "returned"
  /\ IsLetList(InputTokens)
  /\ Len(program.Statements) = 2
  /\ program.Statements[1].Name.Value # program.Statements[2].Name.Value

\* toks is  let <ident> = <expression>  followed or not by ;
IsLetWithValue(toks) ==
  /\ Len(toks) >= 4
  /\ toks[1].Type = TokLET
  /\ toks[2].Type = IDENT
  /\ toks[3].Type = ASSIGN
  /\ IsExpressionOptSemi(SubSeq(toks, 4, Len(toks)))

\* the expression that parseExpression builds at the k-th token of the input
ExpressionAtToken(k) ==
  parseExpression(
    CASE k = 1 -> ParserNew(LexerNew(input))
      [] k = 2 -> nextToken(ParserNew(LexerNew(input)))
      [] k = 4 -> nextToken(nextToken(nextToken(ParserNew(LexerNew(input))))),
    LOWEST).e

\* C7: let x = <expr> and let x = <expr>; both yield one LetStatement whose
\* Value is the expression parsed from the tokens after =
C7_LetValueParsed ==
  IsLetWithValue(InputTokens) =>
    /\ ~(pc = "skip" /\ currTokenIs(p, EOF))
    /\ Returned =>
         /\ Len(program.Statements) = 1
         /\ program.Statements[1].node = "LetStatement"
         /\ program.Statements[1].Value = ExpressionAtToken(4)

\* the input is  return <expression>  followed or not by ;
IsReturnWithValue(toks) ==
  /\ Len(toks) >= 2
  /\ toks[1].Literal = LexReturn
  /\ IsExpressionOptSemi(Tail(toks))

\* C8: return <expr>, with or without ;, gives no error and exactly one
\* statement, a ReturnStatement with token literal return whose ReturnValue
\* is the expression parsed from <expr>
C8_ReturnStatement ==
  IsReturnWithValue(InputTokens) =>
    /\ ~(pc = "skip" /\ currTokenIs(p, EOF))
    /\ Returned =>
         /\ p.errors = <<>>
         /\ Len(program.Statements) = 1
         /\ program.Statements[1].node = "ReturnStatement"
         /\ program.Statements[1].Token.Literal = LexReturn
         /\ program.Statements[1].ReturnValue = ExpressionAtToken(2)

\* the input is one expression followed by ;
IsExpressionSemi(toks) ==
  /\ toks # <<>>
  /\ toks[Len(toks)].Type = SEMICOLON
  /\ IsExpression(SubSeq(toks, 1, Len(toks) - 1))

\* C9: an input that is one expression e is parsed as one
\* ExpressionStatement wrapping the expression parsed from e, and the inputs
\* e and e; give the same Program
C9_ExpressionStatement ==
  /\ (pc = "returned" /\ IsExpression(InputTokens)) =>
       /\ Len(program.Statements) = 1
       /\ program.Statements[1].node = "ExpressionStatement"
       /\ program.Statements[1].Expression = ExpressionAtToken(1)
       /\ ParseProgram(input \o <<";">>).returned
       /\ ParseProgram(input \o <<";">>).program = program
  /\ (pc = "returned" /\ IsExpressionSemi(InputTokens)) =>
       /\ ParseProgram(SubSeq(input, 1, Len(input) - 1)).returned
       /\ ParseProgram(SubSeq(input, 1, Len(input) - 1)).program = program

\* C9's case is reached: an expression with an infix operator, given
\* without ;, was parsed into the Program that the same text with ; gives
C9_Witness ==
  /\ pc = "returned"
  /\ IsExpression(InputTokens)
  /\ Len(InputTokens) >= 3
  /\ p.errors = <<>>
  /\ ParseProgram(input \o <<";">>).program = program

\* the let statement at the current token lacks its identifier or its =
LetIsMalformed(q) ==
  \/ ~peekTokenIs(q, IDENT)
  \/ NextToken(q.lexer).tok.Type # ASSIGN

\* toks is one let statement that lacks its identifier or its =, and what
\* follows starts no other let or return statement
IsMalformedLet(toks) ==
  /\ toks # <<>>
  /\ toks[1].Type = TokLET
  /\ \/ Len(toks) < 2
     \/ toks[2].Type # IDENT
     \/ Len(toks) < 3
     \/ toks[3].Type # ASSIGN
  /\ \A i \in 2..Len(toks) : toks[i].Type \notin {TokLET, RETURN}

\* C10: a let statement whose identifier or = is missing records one error
\* and is abandoned without entering a token-skipping loop, whatever
\* follows it; an input that is such a statement enters no loop, consumes
\* input at every statement, and is returned with at least one error
C10_MalformedLet ==
  /\ [](pc \in {"skip", "returned"} =>
          (IsMalformedLet(InputTokens) =>
             /\ pc # "skip"
             /\ Len(p.errors) >= 1))
  /\ [][(ParseStatement /\ currTokenIs(p, TokLET) /\ LetIsMalformed(p)) =>
          /\ Len(p'.errors) = Len(p.errors) + 1
          /\ pc' = "ParseProgram"
          /\ p'.lexer.readPosition > p.lexer.readPosition]_vars

\* C10's case is reached: ParseProgram returned from  let = 5 ;
C10_Witness ==
  /\ pc = "returned"
  /\ IsMalformedLet(InputTokens)
  /\ Len(InputTokens) = 4
  /\ InputTokens[2].Type = ASSIGN
  /\ Len(p.errors) >= 1

\* C11: once NextToken has returned the EOF token, whose literal is empty,
\* every later call of NextToken on the same lexer returns the EOF token
\* with the empty literal
C11_EOFIdempotent ==
  [][/\ p'.peekToken.Type = EOF => p'.peekToken.Literal = <<>>
     /\ p.peekToken.Type = EOF =>
          p'.peekToken = [Type |-> EOF, Literal |-> <<>>]]_vars

\* C11 for the texts that hold no byte 0: it holds for them
C11_EOFIdempotentNoZeroByte ==
  [][(\A i \in 1..Len(input) : input[i] # NUL) =>
       /\ p'.peekToken.Type = EOF => p'.peekToken.Literal = <<>>
       /\ p.peekToken.Type = EOF =>
            p'.peekToken = [Type |-> EOF, Literal |-> <<>>]]_vars

\* C11's case is reached: after the tokens of a non-empty input, NextToken
\* returned EOF twice in a row
C11_Witness ==
  /\ input # <<>>
  /\ p.currToken.Type = EOF
  /\ p.peekToken.Type = EOF
  /\ p.lexer.readPosition > Len(input) + 1

\* the first position from i on, 1-based, that holds no whitespace
RECURSIVE NonBlankFrom(_, _)
NonBlankFrom(text, i) ==
  IF i <= Len(text) /\ text[i] \in {" ", "\t", "\n", "\r"}
    THEN NonBlankFrom(text, i + 1)
    ELSE i

\* the byte at the 1-based position i, 0 past the end
ByteAt(text, i) == IF i <= Len(text) THEN text[i] ELSE NUL

\* the types of the tokens whose literal is a run of letters or of digits
WordTypes == {IDENT, INT, FUNCTION, TokLET, RETURN}

\* what a call of NextToken must do at = or !, the byte at position i
TwoByteRule(i) ==
  ByteAt(input, i) \in {"=", "!"} =>
    IF ByteAt(input, i + 1) = "="
      THEN /\ p'.peekToken =
                [Type |-> IF input[i] = "=" THEN EQ ELSE NOTEQ,
                 Literal |-> <<input[i], "=">>]
           /\ p'.lexer.position = i + 1
           /\ p'.lexer.ch = ByteAt(input, i + 2)
      ELSE /\ p'.peekToken =
                [Type |-> IF input[i] = "=" THEN ASSIGN ELSE BANG,
                 Literal |-> <<input[i]>>]
           /\ p'.lexer.position = i
           /\ p'.lexer.ch = ByteAt(input, i + 1)

\* C12: at = or !, NextToken returns one EQ or NOTEQ token and consumes both
\* bytes if the next byte is =, and otherwise returns the one-byte ASSIGN or
\* BANG and consumes one byte, leaving the next byte to the next call; no
\* other token that is not a word or a number is longer than one byte
C12_TwoByteOperators ==
  /\ [][TwoByteRule(NonBlankFrom(input, p.lexer.position + 1))]_vars
  /\ [](p.peekToken.Type \in {EQ, NOTEQ} => Len(p.peekToken.Literal) = 2)
  /\ [](p.peekToken.Type \notin (WordTypes \cup {EQ, NOTEQ, EOF, ""})
          => Len(p.peekToken.Literal) = 1)

\* C12 for the tokens other than ILLEGAL: the rule holds, and every
\* operator and delimiter token has a one-byte literal
C12_TwoByteOperatorsLegal ==
  /\ [][TwoByteRule(NonBlankFrom(input, p.lexer.position + 1))]_vars
  /\ [](p.peekToken.Type \in {EQ, NOTEQ} => Len(p.peekToken.Literal) = 2)
  /\ [](p.peekToken.Type \notin (WordTypes \cup {EQ, NOTEQ, EOF, "", ILLEGAL})
          => Len(p.peekToken.Literal) = 1)

\* C12's case is reached: ! then != were read from  !!=
C12_Witness ==
  /\ p.currToken = [Type |-> BANG, Literal |-> <<"!">>]
  /\ p.peekToken = [Type |-> NOTEQ, Literal |-> <<"!", "=">>]

\* the seven reserved words of the language
ReservedWords ==
  {<<"f", "n">>, <<"l", "e", "t">>, <<"t", "r", "u", "e">>,
   <<"f", "a", "l", "s", "e">>, <<"i", "f">>, <<"e", "l", "s", "e">>,
   <<"r", "e", "t", "u", "r", "n">>}

\* the literal is a run of letters
IsWord(literal) ==
  literal # <<>> /\ \A i \in 1..Len(literal) : isLetter(literal[i])

\* C13: the lexer gives a word a keyword kind, and not IDENT, exactly when
\* the word is one of fn, let, true, false, if, else, return
C13_SevenKeywords ==
  IsWord(p.peekToken.Literal) =>
    /\ p.peekToken.Type = LookupIdent(p.peekToken.Literal)
    /\ p.peekToken.Type # IDENT <=> p.peekToken.Literal \in ReservedWords

\* the value of a run of decimal digits read in base 10, after n
RECURSIVE DecimalValue(_, _)
DecimalValue(digits, n) ==
  IF digits = <<>>
    THEN n
    ELSE DecimalValue(Tail(digits), 10 * n + DigitValue[Head(digits)])

\* toks is one INT token, followed or not by ;
IsIntegerOptSemi(toks) ==
  /\ Len(toks) \in {1, 2}
  /\ toks[1].Type = INT
  /\ Len(toks) = 2 => toks[2].Type = SEMICOLON

\* C14: for an INT token the parser builds an IntegerLiteral whose Value is
\* the base-10 value of the digits and whose token literal is the digits,
\* and records no error
C14_IntegerLiteralBase10 ==
  (pc = "returned" /\ IsIntegerOptSemi(InputTokens)) =>
    /\ p.errors = <<>>
    /\ Len(program.Statements) = 1
    /\ program.Statements[1].Expression =
         IntegerLiteral(InputTokens[1],
                        DecimalValue(InputTokens[1].Literal, 0))

\* C14's case is reached: the integer 10 was parsed
C14_Witness ==
  /\ pc = "returned"
  /\ input = <<"1", "0">>
  /\ program.Statements[1].Expression.Value = 10

\* the bytes that are an operator or a delimiter, or start one
PunctuationBytes ==
  {"=", "+", "-", "!", "/", "*", "<", ">", ",", ";", "(", ")", "{", "}"}

\* a byte of none of the classes: no whitespace, operator, delimiter,
\* letter, underscore or digit
IsOtherByte(b) ==
  /\ b \notin {" ", "\t", "\n", "\r"}
  /\ b \notin PunctuationBytes
  /\ b \notin LowerCase \cup UpperCase \cup {"_"}
  /\ b \notin DOMAIN DigitValue

\* what a call of NextToken must do at a byte of none of the classes, the
\* byte at position i of the input
IllegalRule(i) ==
  (i <= Len(input) /\ IsOtherByte(input[i])) =>
    /\ p'.peekToken = [Type |-> ILLEGAL, Literal |-> <<input[i]>>]
    /\ p'.lexer.position = i
    /\ p'.lexer.ch = ByteAt(input, i + 1)

\* C15: for every byte of the input that is no whitespace, operator,
\* delimiter, letter, underscore or digit, NextToken returns an ILLEGAL
\* token whose literal is that byte and advances by exactly one byte
C15_IllegalToken ==
  [][IllegalRule(NonBlankFrom(input, p.lexer.position + 1))]_vars

\* C15 for the bytes from 0x01 to 0x7F: the rule holds for them
C15_IllegalTokenASCII ==
  [][ByteAt(input, NonBlankFrom(input, p.lexer.position + 1))
        \notin {NUL, HighByte} =>
       IllegalRule(NonBlankFrom(input, p.lexer.position + 1))]_vars

\* C15's case is reached: two ILLEGAL tokens in a row were read
C15_Witness ==
  /\ p.currToken = [Type |-> ILLEGAL, Literal |-> <<"@">>]
  /\ p.peekToken = [Type |-> ILLEGAL, Literal |-> <<"@">>]

\* s is a prefix of t
IsPrefix(s, t) == Len(s) <= Len(t) /\ SubSeq(t, 1, Len(s)) = s

\* C16: the error list is only ever appended to: across every step of the
\* parser the earlier list is a prefix of the later one, so the errors stand
\* in the order they were met; and no error stops ParseProgram before EOF:
\* it returns only with the current token EOF
C16_ErrorsAppendOnly ==
  [][/\ IsPrefix(p.errors, p'.errors)
     /\ pc' = "returned" => currTokenIs(p', EOF)]_vars

\* C16's case is reached:  let = 5 ;  was parsed to EOF with two errors, in
\* the order they were met: IDENT expected at =, then no prefix function
\* for =
C16_Witness ==
  /\ pc = "returned"
  /\ currTokenIs(p, EOF)
  /\ Len(InputTokens) = 4
  /\ p.errors = <<PeekErrorMessage(IDENT, ASSIGN), NoPrefixMessage(ASSIGN)>>

\* the renderings of the statements, one after another with no separator
RECURSIVE ConcatRenderings(_)
ConcatRenderings(statements) ==
  IF statements = <<>>
    THEN <<>>
    ELSE StatementString(Head(statements)).out
         \o ConcatRenderings(Tail(statements))

EndsWithSemi(text) == text # <<>> /\ text[Len(text)] = ";"

ExpectedKinds == {IDENT, ASSIGN, SEMICOLON, INT, EOF}

\* what expectPeek(t) must return and leave behind in the parser q, r being
\* what it did return
ExpectPeekFrame(q, t, r) ==
  IF q.peekToken.Type = t
    THEN /\ r.ok
         /\ r.p.currToken = q.peekToken
         /\ r.p.errors = q.errors
         /\ r.p.lexer.position >= q.lexer.position
    ELSE /\ ~r.ok
         /\ Len(r.p.errors) = Len(q.errors) + 1
         /\ IsPrefix(q.errors, r.p.errors)
         /\ r.p.errors[Len(r.p.errors)] =
              <<"Unexpected next token. Expected next token to be", t,
                "got", q.peekToken.Type>>
         /\ r.p.currToken = q.currToken
         /\ r.p.peekToken = q.peekToken
         /\ r.p.lexer = q.lexer

\* C18: expectPeek(kind) on a match advances (peek becomes current), returns
\* true and records no error; on a mismatch it appends exactly one error
\* naming the expected and the actual kind, returns false and leaves the
\* current token, the peek token and the lexer cursor unchanged; so a let
\* statement that lacks its identifier leaves the parser where it was, one
\* error added, and ParseProgram's own advance makes the peek token current
C18_ExpectPeekFrame ==
  /\ [](\A t \in ExpectedKinds : ExpectPeekFrame(p, t, expectPeek(p, t)))
  /\ [][(pc = "ParseProgram" /\ currTokenIs(p, TokLET)
           /\ ~peekTokenIs(p, IDENT)) =>
          /\ p'.errors =
               Append(p.errors, PeekErrorMessage(IDENT, p.peekToken.Type))
          /\ p'.currToken = p.peekToken
          /\ p'.lexer.position >= p.lexer.position]_vars

\* C18's case is reached: expectPeek(IDENT) met = and expectPeek(ASSIGN)
\* met 5 in  let = 5 ; let x 5 ;
C18_Witness ==
  /\ Len(p.errors) >= 3
  /\ p.errors[1] = PeekErrorMessage(IDENT, ASSIGN)
  /\ p.errors[3] = PeekErrorMessage(ASSIGN, INT)

\* the kinds that have a prefix handler
PrefixHandled == {IDENT, INT, BANG, MINUS}

\* what parseExpression must return and leave behind in the parser q whose
\* current token has no prefix handler, r being what it did return
NoPrefixFrame(q, r) ==
  /\ r.e = Nil
  /\ r.p.errors =
       Append(q.errors,
              <<"Failed to find prefix parse function for token",
                q.currToken.Type>>)
  /\ r.p.currToken = q.currToken
  /\ r.p.peekToken = q.peekToken
  /\ r.p.lexer = q.lexer

\* C19: parseExpression entered at a token whose kind has no prefix handler
\* (every kind but IDENT, INT, BANG and MINUS) appends exactly one error
\* naming that kind, returns an absent expression and does not advance; so a
\* statement that starts with such a token becomes an ExpressionStatement
\* with an absent expression, one error added
C19_NoPrefixHandler ==
  /\ [](p.currToken.Type \notin PrefixHandled =>
          \A precedence \in {LOWEST, SUM, PREFIX} :
            NoPrefixFrame(p, parseExpression(p, precedence)))
  /\ [][(pc = "ParseProgram" /\ ~currTokenIs(p, EOF)
           /\ p.currToken.Type \notin PrefixHandled \cup {TokLET, RETURN}) =>
          /\ p'.errors = Append(p.errors, NoPrefixMessage(p.currToken.Type))
          /\ program'.Statements =
               Append(program.Statements,
                      ExpressionStatement(p.currToken, Nil))
          /\ ~peekTokenIs(p, SEMICOLON) => p'.currToken = p.peekToken]_vars

\* C19's case is reached: ParseProgram returned from  @  with the error
\* that names ILLEGAL
C19_Witness ==
  /\ pc = "returned"
  /\ input = <<"@">>
  /\ p.errors = <<NoPrefixMessage(ILLEGAL)>>
  /\ program.Statements[1].Expression = Nil

\* the most tokens a run takes from the lexer
MaxTokens == Len(input) + MaxOverrun + 2

\* walks the stream of a fresh lexer, r being what its n-th NextToken
\* returned and prev the token before: n if the lexer of the parser q stands
\* right after token n while q holds prev and token n, 0 otherwise
RECURSIVE IndexFrom(_, _, _, _)
IndexFrom(q, r, prev, n) ==
  IF r.l = q.lexer
    THEN (IF q.currToken = prev /\ q.peekToken = r.tok THEN n ELSE 0)
    ELSE IF n >= MaxTokens
           THEN 0
           ELSE IndexFrom(q, NextToken(r.l), r.tok, n + 1)

SecondFrom(q, first) == IndexFrom(q, NextToken(first.l), first.tok, 2)

\* the place in the token stream of the input where the parser q stands
StreamIndex(q) == SecondFrom(q, NextToken(LexerNew(input)))

\* C20: New leaves the first token of the lexer's stream as the current one
\* and the second as the peek; after every advance the parser holds two
\* neighbouring tokens of the stream, one further than before: no token is
\* skipped, duplicated or reordered
C20_TokenWindow ==
  /\ [](pc = "New" => StreamIndex(ParserNew(LexerNew(input))) = 2)
  /\ [](pc = "nextToken" => StreamIndex(p) >= 2)
  /\ [][pc = "nextToken" => StreamIndex(p') = StreamIndex(p) + 1]_vars

\* C20's case is reached: from  a =5  the parser advanced to = and 5
C20_Witness ==
  /\ pc = "nextToken"
  /\ input = <<"a", " ", "=", "5">>
  /\ p.currToken = [Type |-> ASSIGN, Literal |-> <<"=">>]
  /\ p.peekToken = [Type |-> INT, Literal |-> <<"5">>]

\* the text has no byte 0
NoZeroByte(text) == \A i \in 1..Len(text) : text[i] # NUL

\* the text without its whitespace bytes
RECURSIVE WithoutWhitespace(_)
WithoutWhitespace(text) ==
  IF text = <<>>
    THEN <<>>
    ELSE IF Head(text) \in {" ", "\t", "\n", "\r"}
      THEN WithoutWhitespace(Tail(text))
      ELSE <<Head(text)>> \o WithoutWhitespace(Tail(text))

\* the literals of a list of tokens, one after the other
RECURSIVE Literals(_)
Literals(toks) ==
  IF toks = <<>> THEN <<>> ELSE Head(toks).Literal \o Literals(Tail(toks))

\* what holds of the tokens toks that NextToken returned before the first
\* EOF: with the EOF they were no more than len(input) + 1 calls, and their
\* literals make up the input without its whitespace
RebuildsInput(toks) ==
  /\ Len(toks) + 1 <= Len(input) + 1
  /\ Literals(toks) = WithoutWhitespace(input)

\* the first EOF has just been returned
AtFirstEOF == p.peekToken.Type = EOF /\ p.currToken.Type # EOF

\* C21: for every input without a byte 0, NextToken returns the first EOF
\* within len(input) + 1 calls, every call that returns another token moves
\* the cursor strictly forward, and the literals returned before the EOF,
\* one after the other, are the input without its whitespace bytes
C21_LiteralsRebuildInput ==
  /\ []((NoZeroByte(input) /\ AtFirstEOF) => RebuildsInput(InputTokens))
  /\ [][(NoZeroByte(input) /\ p'.peekToken.Type # EOF) =>
          p'.lexer.position > p.lexer.position]_vars

\* C21 for the inputs of bytes from 0x01 to 0x7F: it holds for them
C21_LiteralsRebuildInputASCII ==
  /\ []((NoZeroByte(input) /\ AtFirstEOF
          /\ \A i \in 1..Len(input) : input[i] # HighByte)
          => RebuildsInput(InputTokens))
  /\ [][(NoZeroByte(input) /\ p'.peekToken.Type # EOF) =>
          p'.lexer.position > p.lexer.position]_vars

\* C21's case is reached: the input is the one byte 0xE9, NextToken returned
\* an ILLEGAL token with a literal of two bytes for it and then EOF
C21_Witness ==
  /\ input = <<HighByte>>
  /\ p.currToken = [Type |-> ILLEGAL, Literal |-> <<"0xC3", "0xA9">>]
  /\ p.peekToken.Type = EOF

====
